---- MODULE Spec2Model ----
(***************************************************************************)
(* Model of scripts/collect_assessment_data.py: the sequential collector   *)
(* that resets a minikube cluster, deploys the sick and the healthy        *)
(* workload in turn, runs the ten assessment commands against each and     *)
(* writes one flat file per command plus one comprehensive JSON file.      *)
(*                                                                         *)
(* The environment (external processes, the output directory, the manifest *)
(* files) is nondeterministic: every command may exit 0, exit non-zero,    *)
(* time out or fail to launch; every file write may succeed, fail on open  *)
(* or fail after the file was truncated; a manifest path may be missing.   *)
(* The number of such non-nominal events in one behaviour is bounded by    *)
(* MaxFaults, and the number of invocations of the script by MaxRuns.      *)
(*                                                                         *)
(* Spec is one invocation of the script with any skip flags; SpecRerun is  *)
(* the full collection invoked repeatedly over one output directory.       *)
(***************************************************************************)
EXTENDS Integers, Sequences, FiniteSets, TLC

VARIABLES
    pc,         \* position of the control thread inside main()
    scen,       \* scenario_type of the running collect_scenario_data, "" outside
    args,       \* parsed command line (argparse namespace)
    manifests,  \* manifest paths that exist on disk
    files,      \* files of the output directory: name -> content
    prev,       \* the output directory as this invocation found it:
                \* name -> kind of content
    log,        \* history of this invocation: commands issued, files written,
                \* sleeps, log lines, exit
    clock,      \* datetime.now(), one tick per reading
    exitCode,   \* value returned by main(), -1 while running
    faults,     \* non-nominal environment events so far
    run         \* number of the current invocation of the script

vars == <<pc, scen, args, manifests, files, prev, log, clock, exitCode,
          faults, run>>

----------------------------------------------------------------------------
(* Bounds *)

MaxFaults == 1
MaxRuns == 2

----------------------------------------------------------------------------
(* Text helpers: str.join and the f-string formatting of integers *)

Digits == <<"0", "1", "2", "3", "4", "5", "6", "7", "8", "9">>

RECURSIVE NatToStr(_)
NatToStr(n) ==
    IF n < 10 THEN Digits[n + 1]
    ELSE NatToStr(n \div 10) \o Digits[(n % 10) + 1]

IntToStr(n) == IF n < 0 THEN "-" \o NatToStr(0 - n) ELSE NatToStr(n)

RECURSIVE Join(_, _)
Join(tokens, sep) ==
    IF Len(tokens) = 0 THEN ""
    ELSE IF Len(tokens) = 1 THEN tokens[1]
    ELSE tokens[1] \o sep \o Join(Tail(tokens), sep)

----------------------------------------------------------------------------
(* The fixed list of assessment commands *)

assessment_commands == <<
    [name |-> "cluster-info",
     command |-> <<"kubectl", "cluster-info">>,
     description |-> "Basic cluster information"],
    [name |-> "get_nodes_-o_wide",
     command |-> <<"kubectl", "get", "nodes", "-o", "wide">>,
     description |-> "Node status and details"],
    [name |-> "get_pods_--all-namespaces_--field-selector=status.phase!=Running",
     command |-> <<"kubectl", "get", "pods", "--all-namespaces",
                   "--field-selector=status.phase!=Running">>,
     description |-> "Non-running pods"],
    [name |-> "top_nodes",
     command |-> <<"kubectl", "top", "nodes">>,
     description |-> "Node resource usage"],
    [name |-> "top_pods_--all-namespaces",
     command |-> <<"kubectl", "top", "pods", "--all-namespaces">>,
     description |-> "Pod resource usage"],
    [name |-> "get_componentstatuses",
     command |-> <<"kubectl", "get", "componentstatuses">>,
     description |-> "Component health status"],
    [name |-> "get_events_--all-namespaces_--sort-by='.lastTimestamp'",
     command |-> <<"kubectl", "get", "events", "--all-namespaces",
                   "--sort-by=.lastTimestamp">>,
     description |-> "Recent cluster events"],
    [name |-> "get_pods_--all-namespaces",
     command |-> <<"kubectl", "get", "pods", "--all-namespaces", "-o", "wide">>,
     description |-> "All pods detailed view"],
    [name |-> "get_services_--all-namespaces",
     command |-> <<"kubectl", "get", "services", "--all-namespaces">>,
     description |-> "All services"],
    [name |-> "get_deployments_--all-namespaces",
     command |-> <<"kubectl", "get", "deployments", "--all-namespaces">>,
     description |-> "All deployments"] >>

NumProbes == Len(assessment_commands)

ProbeNames == {assessment_commands[i].name : i \in 1..NumProbes}

----------------------------------------------------------------------------
(* The environment *)

\* What subprocess.run can do with a command.
ExitOk == [kind |-> "exit", rc |-> 0, out |-> "output", err |-> ""]
ExitFail == [kind |-> "exit", rc |-> 1, out |-> "partial", err |-> "failure"]
TimedOut == [kind |-> "timeout", rc |-> 0, out |-> "", err |-> ""]
LaunchFailed ==
    [kind |-> "oserror", rc |-> 0, out |-> "",
     err |-> "[Errno 2] No such file or directory"]

Outcomes == {ExitOk, ExitFail, TimedOut, LaunchFailed}

\* What open(path, "w") followed by the writes can do.
WriteOutcomes == {"ok", "open_fails", "write_fails"}

WriteError == "[Errno 28] No space left on device"

\* A non-nominal outcome uses up one unit of the fault budget.
CmdCost(o) == IF o = ExitOk THEN 0 ELSE 1

WriteCost(w) == IF w = "ok" THEN 0 ELSE 1

\* The outcomes a command can have while `budget` faults remain.
Affordable(budget) == IF budget > 0 THEN Outcomes ELSE {ExitOk}

AffordableWrites(budget) == IF budget > 0 THEN WriteOutcomes ELSE {"ok"}

ClusterIds == {"test1"}

ManifestPaths ==
    [sick_deployment |-> "sick-deployment.yaml",
     sick_service |-> "sick-service.yaml",
     healthy_deployment |-> "healthy-deployment.yaml",
     healthy_service |-> "healthy-service.yaml"]

AllManifests ==
    {ManifestPaths.sick_deployment, ManifestPaths.sick_service,
     ManifestPaths.healthy_deployment, ManifestPaths.healthy_service}

----------------------------------------------------------------------------
(* History events *)

\* type: "cmd" (a process was run), "write" (a file was opened for writing),
\* "raise" (an exception was raised), "sleep", "info" / "error" (a log line),
\* "exit" (main returned).
Ev(sc, step, type, what, rc) ==
    [scen |-> sc, step |-> step, type |-> type, what |-> what, rc |-> rc]

\* A "cmd" event also keeps what the process did (outcome), whether
\* run_command raised, and the record it returned (res).
CmdEv(sc, step, outcome, raised, result) ==
    [scen |-> sc, step |-> step, type |-> "cmd", what |-> result.command,
     rc |-> result.returncode, outcome |-> outcome, raised |-> raised,
     res |-> result]

Info(sc, step, msg) == Ev(sc, step, "info", msg, 0)

Error(sc, step, msg) == Ev(sc, step, "error", msg, 0)

Sleep(sc, step, seconds) == Ev(sc, step, "sleep", IntToStr(seconds), 0)

----------------------------------------------------------------------------
(* run_command *)

\* run_command without its `except subprocess.TimeoutExpired` clause: the
\* timeout falls through to `except Exception` and stderr becomes str(e).
run_command_no_timeout_clause(command, outcome, now, sc, step) ==
    LET text == Join(command, " ")
        result ==
            CASE outcome.kind = "exit" ->
                    [command |-> text, returncode |-> outcome.rc,
                     stdout |-> outcome.out, stderr |-> outcome.err,
                     timestamp |-> now]
              [] outcome.kind = "timeout" ->
                    [command |-> text, returncode |-> -1, stdout |-> "",
                     stderr |-> "Command '" \o text \o "' timed out",
                     timestamp |-> now]
              [] OTHER ->
                    [command |-> text, returncode |-> -1, stdout |-> "",
                     stderr |-> outcome.err, timestamp |-> now]
        errors ==
            IF outcome.kind = "exit" THEN <<>>
            ELSE <<Error(sc, step, "Error running command " \o text
                                   \o ": " \o result.stderr)>>
    IN  [raised |-> FALSE,
         result |-> result,
         events |-> <<Info(sc, step, "Running: " \o text),
                      CmdEv(sc, step, outcome, FALSE, result)>> \o errors]

run_command(command, outcome, now, sc, step) ==
    LET text == Join(command, " ")
        result ==
            CASE outcome.kind = "exit" ->
                    [command |-> text, returncode |-> outcome.rc,
                     stdout |-> outcome.out, stderr |-> outcome.err,
                     timestamp |-> now]
              [] outcome.kind = "timeout" ->
                    [command |-> text, returncode |-> -1, stdout |-> "",
                     stderr |-> "Command timed out", timestamp |-> now]
              [] OTHER ->
                    [command |-> text, returncode |-> -1, stdout |-> "",
                     stderr |-> outcome.err, timestamp |-> now]
        errors ==
            CASE outcome.kind = "exit" -> <<>>
              [] outcome.kind = "timeout" ->
                    <<Error(sc, step, "Command timed out: " \o text)>>
              [] OTHER ->
                    <<Error(sc, step, "Error running command " \o text
                                      \o ": " \o outcome.err)>>
    IN  [raised |-> FALSE,
         result |-> result,
         events |-> <<Info(sc, step, "Running: " \o text),
                      CmdEv(sc, step, outcome, FALSE, result)>> \o errors]

----------------------------------------------------------------------------
(* main: leaving, and moving from one scenario to the next *)

Upper(sc) == IF sc = "sick" THEN "SICK" ELSE "HEALTHY"

Capitalized(sc) == IF sc = "sick" THEN "Sick" ELSE "Healthy"

\* main() returns code after the events were emitted.
Return(events, code) ==
    /\ pc' = "done"
    /\ scen' = ""
    /\ exitCode' = code
    /\ log' = log \o events \o <<Ev("", "main", "exit", "", code)>>

\* The except clause of main().
main_except(msg) ==
    [events |-> <<Error("", "main", "Collection failed: " \o msg)>>, code |-> 1]

\* An exception with text msg leaves setup_minikube or collect_scenario_data.
Raise(events, msg) ==
    LET h == main_except(msg) IN Return(events \o h.events, h.code)

\* main() with the two scenario blocks in the other order.
next_scenario_healthy_first(after, skip_sick, skip_healthy) ==
    IF after = "setup" /\ ~skip_healthy THEN "healthy"
    ELSE IF after # "sick" /\ ~skip_sick THEN "sick"
    ELSE ""

\* main() without the `if not args.skip_healthy` test.
next_scenario_ignoring_skip_healthy(after, skip_sick, skip_healthy) ==
    IF after = "setup" /\ ~skip_sick THEN "sick"
    ELSE IF after # "healthy" THEN "healthy"
    ELSE ""

\* The scenario main() turns to after `after` ("setup", "sick", "healthy"),
\* "" when none is left.
next_scenario(after, skip_sick, skip_healthy) ==
    IF after = "setup" /\ ~skip_sick THEN "sick"
    ELSE IF after # "healthy" /\ ~skip_healthy THEN "healthy"
    ELSE ""

Proceed(events, after) ==
    LET nxt == next_scenario(after, args.skip_sick, args.skip_healthy) IN
    IF nxt = ""
    THEN Return(events \o
                <<Info("", "main", "All data collection complete!"),
                  Info("", "main", "Results saved to: " \o args.output_dir)>>,
                0)
    ELSE /\ pc' = "deploy"
         /\ scen' = nxt
         /\ exitCode' = exitCode
         /\ log' = log \o events \o
                <<Info("", "main",
                       "=== COLLECTING " \o Upper(nxt) \o " SCENARIO DATA ==="),
                  Info(nxt, "collect",
                       "Collecting " \o nxt \o " scenario data...")>>

\* The except clause of collect_scenario_data without its `raise`: the
\* exception is logged and swallowed, and main() carries on.
ScenarioRaise_swallowed(events, msg) ==
    Proceed(events \o <<Error(scen, "collect",
                              "Error in " \o scen \o " scenario: " \o msg)>>,
            scen)

\* The except clause of collect_scenario_data: log and re-raise.
ScenarioRaise(events, msg) ==
    Raise(events \o <<Error(scen, "collect",
                            "Error in " \o scen \o " scenario: " \o msg)>>, msg)

----------------------------------------------------------------------------
(* setup_minikube *)

\* `if start_result["returncode"] > 0`: misses the -1 of a timeout.
start_failed_positive_only(start_result) == start_result.returncode > 0

start_failed(start_result) == start_result.returncode # 0

\* The readiness check without its `raise`.
ready_failed_ignored(ready_result) == FALSE

ready_failed(ready_result) == ready_result.returncode # 0

setup_minikube ==
    /\ pc = "setup"
    /\ \E o1, o2, o3 \in Affordable(MaxFaults - faults) :
        LET stop == run_command(<<"minikube", "stop">>, o1, clock, "", "setup")
            delete == run_command(<<"minikube", "delete">>, o2, clock + 1,
                                  "", "setup")
            start == run_command(<<"minikube", "start", "--cpus=4",
                                   "--memory=4096", "--disk-size=20g">>,
                                 o3, clock + 2, "", "setup")
            head == <<Info("", "setup", "Setting up minikube...")>>
                    \o stop.events \o delete.events \o start.events
            cost == CmdCost(o1) + CmdCost(o2) + CmdCost(o3)
        IN
        IF start_failed(start.result)
        THEN /\ faults + cost <= MaxFaults
             /\ faults' = faults + cost
             /\ clock' = clock + 3
             /\ Raise(head, "Failed to start minikube: " \o start.result.stderr)
        ELSE \E o4, o5 \in Affordable(MaxFaults - faults - cost) :
            LET addon == run_command(<<"minikube", "addons", "enable",
                                       "metrics-server">>, o4, clock + 3,
                                     "", "setup")
                ready == run_command(<<"kubectl", "get", "nodes">>, o5,
                                     clock + 4, "", "setup")
                body == head \o addon.events
                        \o <<Info("", "setup",
                                  "Waiting for metrics server to be ready..."),
                             Sleep("", "setup", 30)>>
                        \o ready.events
                all == cost + CmdCost(o4) + CmdCost(o5)
            IN
            /\ faults + all <= MaxFaults
            /\ faults' = faults + all
            /\ clock' = clock + 5
            /\ IF ready_failed(ready.result)
               THEN Raise(body, "Cluster not ready after setup")
               ELSE Proceed(body \o <<Info("", "setup",
                                           "Minikube setup complete")>>,
                            "setup")
    /\ UNCHANGED <<args, manifests, files, prev, run>>

----------------------------------------------------------------------------
(* deploy_manifests *)

deployment_file(sc) ==
    IF sc = "sick" THEN args.sick_deployment ELSE args.healthy_deployment

service_file(sc) ==
    IF sc = "sick" THEN args.sick_service ELSE args.healthy_service

\* `if path`: the existence test left out.
manifest_applies_unchecked(path) == path # ""

\* `if path and Path(path).exists()`
manifest_applies(path) == path # "" /\ path \in manifests

deploy_manifests ==
    /\ pc = "deploy"
    /\ \E o1, o2, o3 \in Affordable(MaxFaults - faults) :
        LET d == deployment_file(scen)
            s == service_file(scen)
            applyD == manifest_applies(d)
            applyS == manifest_applies(s)
            t1 == clock + (IF applyD THEN 1 ELSE 0)
            t2 == t1 + (IF applyS THEN 1 ELSE 0)
            dep == run_command(<<"kubectl", "apply", "-f", d>>, o1, clock,
                               scen, "deploy")
            svc == run_command(<<"kubectl", "apply", "-f", s>>, o2, t1,
                               scen, "deploy")
            roll == run_command(<<"kubectl", "rollout", "status", "deployment",
                                  "--all-namespaces", "--timeout=60s">>,
                                o3, t2, scen, "deploy")
            depEvents ==
                IF ~applyD THEN <<>>
                ELSE dep.events \o
                     (IF dep.result.returncode # 0
                      THEN <<Error(scen, "deploy",
                                   "Failed to apply deployment: "
                                   \o dep.result.stderr)>>
                      ELSE <<>>)
            svcEvents ==
                IF ~applyS THEN <<>>
                ELSE svc.events \o
                     (IF svc.result.returncode # 0
                      THEN <<Error(scen, "deploy",
                                   "Failed to apply service: "
                                   \o svc.result.stderr)>>
                      ELSE <<>>)
            cost == CmdCost(o1) + CmdCost(o2) + CmdCost(o3)
        IN
        /\ ~applyD => o1 = ExitOk
        /\ ~applyS => o2 = ExitOk
        /\ faults + cost <= MaxFaults
        /\ faults' = faults + cost
        /\ clock' = t2 + 1
        /\ log' = log
                  \o <<Info(scen, "deploy",
                            "Deploying manifests: " \o d \o ", " \o s)>>
                  \o depEvents \o svcEvents
                  \o <<Info(scen, "deploy",
                            "Waiting for deployments to settle..."),
                       Sleep(scen, "deploy", 45)>>
                  \o roll.events
    /\ pc' = "assess"
    /\ UNCHANGED <<scen, args, manifests, files, prev, exitCode, run>>

----------------------------------------------------------------------------
(* Output files *)

TextFile(chunks) == [kind |-> "text", text |-> chunks]

JsonFile(doc) == [kind |-> "json", doc |-> doc]

\* A file that open(path, "w") truncated and whose content never arrived.
Truncated == [kind |-> "empty"]

\* open(path, "a"): what is written lands after what the file held.
Overwrite_appending(fs, fname, content) ==
    [f \in DOMAIN fs \cup {fname} |->
        IF f # fname THEN fs[f]
        ELSE IF fname \in DOMAIN fs /\ fs[fname].kind = "text"
                /\ content.kind = "text"
             THEN [kind |-> "text", text |-> fs[fname].text \o content.text]
             ELSE content]

\* open(path, "w") ... write: the file is created or replaced.
Overwrite(fs, fname, content) ==
    [f \in DOMAIN fs \cup {fname} |-> IF f = fname THEN content ELSE fs[f]]

flat_file_name(cluster_id, scenario_type, command_name) ==
    cluster_id \o "-" \o scenario_type \o "-kubectl_" \o command_name \o ".txt"

results_file_name(cluster_id, scenario_type) ==
    cluster_id \o "-" \o scenario_type \o "-comprehensive.json"

\* The header stamped with a fresh reading of the clock instead of the
\* result's own timestamp.
flat_file_text_restamped(cluster_id, scenario_type, result) ==
    <<"# Command: " \o result.command \o "\n",
      "# Timestamp: " \o IntToStr(result.timestamp + 1) \o "\n",
      "# Return code: " \o IntToStr(result.returncode) \o "\n",
      "# Cluster ID: " \o cluster_id \o "\n",
      "# Scenario: " \o scenario_type \o "\n",
      "\n--- STDOUT ---\n",
      result.stdout>>
    \o (IF result.stderr # ""
        THEN <<"\n--- STDERR ---\n", result.stderr>>
        ELSE <<>>)

flat_file_text(cluster_id, scenario_type, result) ==
    <<"# Command: " \o result.command \o "\n",
      "# Timestamp: " \o IntToStr(result.timestamp) \o "\n",
      "# Return code: " \o IntToStr(result.returncode) \o "\n",
      "# Cluster ID: " \o cluster_id \o "\n",
      "# Scenario: " \o scenario_type \o "\n",
      "\n--- STDOUT ---\n",
      result.stdout>>
    \o (IF result.stderr # ""
        THEN <<"\n--- STDERR ---\n", result.stderr>>
        ELSE <<>>)

\* open(path, "w") and the writes under it, with the environment's verdict w.
write_file(fs, fname, content, w, sc) ==
    CASE w = "ok" ->
            [files |-> Overwrite(fs, fname, content),
             events |-> <<Ev(sc, "assess", "write", fname, 0)>>,
             raised |-> FALSE]
      [] w = "open_fails" ->
            [files |-> fs,
             events |-> <<Ev(sc, "assess", "raise", fname, 0)>>,
             raised |-> TRUE]
      [] OTHER ->
            [files |-> Overwrite(fs, fname, Truncated),
             events |-> <<Ev(sc, "assess", "write", fname, -1),
                          Ev(sc, "assess", "raise", fname, 0)>>,
             raised |-> TRUE]

\* logger.debug is below the configured INFO level: no log line.
save_flat_file(fs, cluster_id, scenario_type, command_name, result, w) ==
    write_file(fs,
               flat_file_name(cluster_id, scenario_type, command_name),
               TextFile(flat_file_text(cluster_id, scenario_type, result)),
               w, scenario_type)

----------------------------------------------------------------------------
(* run_assessments *)

\* `results["assessments"] = {name: {...}}`: every iteration starts the
\* mapping afresh.
store_result_replacing(assessments, assessment, result) ==
    [n \in {assessment.name} |->
        [description |-> assessment.description, result |-> result]]

\* results["assessments"][name] = {...}
store_result(assessments, assessment, result) ==
    [n \in DOMAIN assessments \cup {assessment.name} |->
        IF n = assessment.name
        THEN [description |-> assessment.description, result |-> result]
        ELSE assessments[n]]

\* Lines 212-225: one iteration of the loop over assessment_commands, for the
\* i-th command, with the environment's verdicts o (process) and w (write).
\* st is the state of the function: output directory, results["assessments"],
\* events so far, clock, whether an exception is propagating, faults used.
probe_iteration(st, i, o, w, cluster_id, sc) ==
    LET assessment == assessment_commands[i]
        r == run_command(assessment.command, o, st.clock, sc, "assess")
        saved == save_flat_file(st.files, cluster_id, sc, assessment.name,
                                r.result, w)
    IN  [files |-> saved.files,
         assessments |-> store_result(st.assessments, assessment, r.result),
         events |-> st.events
                    \o <<Info(sc, "assess",
                              "Running assessment: " \o assessment.name)>>
                    \o r.events \o saved.events,
         clock |-> st.clock + 1,
         raised |-> saved.raised,
         cost |-> st.cost + CmdCost(o) + WriteCost(w)]

\* The loop of lines 212-225 from the i-th command on: every way it can end
\* with at most `budget` faults.
RECURSIVE probe_loop(_, _, _, _, _)
probe_loop(st, i, cluster_id, sc, budget) ==
    IF st.raised \/ i > NumProbes THEN {st}
    ELSE UNION { probe_loop(probe_iteration(st, i, ow[1], ow[2],
                                            cluster_id, sc),
                            i + 1, cluster_id, sc, budget) :
                 ow \in {p \in Affordable(budget - st.cost)
                                  \X AffordableWrites(budget - st.cost) :
                           st.cost + CmdCost(p[1]) + WriteCost(p[2])
                               <= budget} }

run_assessments ==
    /\ pc = "assess"
    /\ \E end \in probe_loop([files |-> files,
                             assessments |-> <<>>,
                             events |-> <<Info(scen, "assess",
                                               "Running " \o scen
                                               \o " assessments...")>>,
                             clock |-> clock + 1,
                             raised |-> FALSE,
                             cost |-> 0],
                            1, args.cluster_id, scen, MaxFaults - faults) :
        IF end.raised
        THEN /\ faults' = faults + end.cost
             /\ clock' = end.clock
             /\ files' = end.files
             /\ ScenarioRaise(end.events, WriteError)
        ELSE \E w \in AffordableWrites(MaxFaults - faults - end.cost) :
            \* Lines 227-235: the comprehensive JSON file.
            LET fname == results_file_name(args.cluster_id, scen)
                doc == [cluster_id |-> args.cluster_id,
                        scenario_type |-> scen,
                        timestamp |-> clock,
                        assessments |-> end.assessments]
                saved == write_file(end.files, fname, JsonFile(doc), w, scen)
            IN
            /\ faults + end.cost + WriteCost(w) <= MaxFaults
            /\ faults' = faults + end.cost + WriteCost(w)
            /\ clock' = end.clock
            /\ files' = saved.files
            /\ IF saved.raised
               THEN ScenarioRaise(end.events \o saved.events, WriteError)
               ELSE /\ pc' = "cleanup"
                    /\ log' = log \o end.events \o saved.events
                              \o <<Info(scen, "assess",
                                        "Assessment results saved to "
                                        \o args.output_dir \o "/" \o fname)>>
                    /\ UNCHANGED <<scen, exitCode>>
    /\ UNCHANGED <<args, manifests, prev, run>>

----------------------------------------------------------------------------
(* cleanup_cluster, and the return to main *)

cleanup_cluster ==
    /\ pc = "cleanup"
    /\ \E o \in Affordable(MaxFaults - faults) :
        LET del == run_command(<<"kubectl", "delete", "all", "--all">>, o,
                               clock, scen, "cleanup")
        IN
        /\ faults + CmdCost(o) <= MaxFaults
        /\ faults' = faults + CmdCost(o)
        /\ clock' = clock + 1
        /\ Proceed(<<Info(scen, "cleanup", "Cleaning up cluster resources...")>>
                   \o del.events
                   \o <<Sleep(scen, "cleanup", 10),
                        Info("", "main",
                             Capitalized(scen)
                             \o " scenario data collection complete")>>,
                   scen)
    /\ UNCHANGED <<args, manifests, files, prev, run>>

----------------------------------------------------------------------------
(* The script is invoked again, with the same command line and over the    *)
(* same output directory, after a run that completed (exit code 0).  The   *)
(* history starts afresh; of the earlier runs the files remain.            *)

Rerun ==
    /\ pc = "done"
    /\ exitCode = 0
    /\ run < MaxRuns
    /\ run' = run + 1
    /\ pc' = "setup"
    /\ exitCode' = -1
    /\ prev' = [f \in DOMAIN files |-> files[f].kind]
    /\ log' = <<>>
    /\ UNCHANGED <<scen, args, manifests, files, clock, faults>>

----------------------------------------------------------------------------

\* parse_args and the constructor: the command line, an empty output
\* directory, the clock somewhere.
Start(ss, sh) ==
    /\ pc = "setup"
    /\ scen = ""
    /\ \E id \in ClusterIds :
         args = [cluster_id |-> id,
                 sick_deployment |-> ManifestPaths.sick_deployment,
                 sick_service |-> ManifestPaths.sick_service,
                 healthy_deployment |-> ManifestPaths.healthy_deployment,
                 healthy_service |-> ManifestPaths.healthy_service,
                 output_dir |-> "assessment_data",
                 skip_sick |-> ss,
                 skip_healthy |-> sh]
    /\ files = <<>>
    /\ prev = <<>>
    /\ log = <<>>
    /\ clock = 1
    /\ exitCode = -1
    /\ run = 1

\* One invocation of the script: any skip flags, any manifests missing.
Init ==
    /\ \E ss, sh \in BOOLEAN : Start(ss, sh)
    /\ \E missing \in SUBSET AllManifests :
         /\ Cardinality(missing) <= MaxFaults
         /\ manifests = AllManifests \ missing
         /\ faults = Cardinality(missing)

Next ==
    \/ setup_minikube
    \/ deploy_manifests
    \/ run_assessments
    \/ cleanup_cluster

Spec == Init /\ [][Next]_vars

\* The full collection (both scenarios, all manifests in place), invoked up
\* to MaxRuns times over the same output directory.
InitFull ==
    /\ Start(FALSE, FALSE)
    /\ manifests = AllManifests
    /\ faults = 0

NextRerun ==
    \/ setup_minikube
    \/ deploy_manifests
    \/ run_assessments
    \/ cleanup_cluster
    \/ Rerun

SpecRerun == InitFull /\ [][NextRerun]_vars

----------------------------------------------------------------------------
(* Reading the history *)

IsPrefix(a, b) == Len(a) <= Len(b) /\ \A i \in 1..Len(a) : a[i] = b[i]

IsCmd(e) == e.type = "cmd"

IsLogLine(e) == e.type = "info" \/ e.type = "error"

Cmds == SelectSeq(log, IsCmd)

CmdTexts == [i \in 1..Len(Cmds) |-> Cmds[i].what]

StartText == "minikube start --cpus=4 --memory=4096 --disk-size=20g"

ReadyText == "kubectl get nodes"

SetupTexts ==
    <<"minikube stop", "minikube delete", StartText,
      "minikube addons enable metrics-server", ReadyText>>

ProbeTexts ==
    <<"kubectl cluster-info",
      "kubectl get nodes -o wide",
      "kubectl get pods --all-namespaces --field-selector=status.phase!=Running",
      "kubectl top nodes",
      "kubectl top pods --all-namespaces",
      "kubectl get componentstatuses",
      "kubectl get events --all-namespaces --sort-by=.lastTimestamp",
      "kubectl get pods --all-namespaces -o wide",
      "kubectl get services --all-namespaces",
      "kubectl get deployments --all-namespaces">>

Scenarios == {"sick", "healthy"}

\* The events of one scenario's step, in order.
StepEvents(sc, step, type) ==
    SelectSeq(log, LAMBDA e : e.scen = sc /\ e.step = step /\ e.type = type)

ProbeCalls(sc) == StepEvents(sc, "assess", "cmd")

----------------------------------------------------------------------------
(* C1 *)

WellFormed(res) ==
    /\ DOMAIN res = {"command", "returncode", "stdout", "stderr", "timestamp"}
    /\ res.returncode \in Int
    /\ res.timestamp \in Nat

\* C1: run_command is total over the outcomes of the external process. Every
\* call made so far, whatever the process did (exit 0, non-zero exit, timeout,
\* launch failure), returned without raising a record with exactly the fields
\* command, returncode, stdout, stderr, timestamp. On normal completion the
\* record carries the process's exit code and output; on timeout it is
\* returncode -1, stdout "", stderr "Command timed out"; on launch failure it
\* is returncode -1, stdout "", stderr the text of the error.
C1_RunCommandTotal ==
    \A i \in DOMAIN log :
        IsCmd(log[i]) =>
            LET e == log[i] IN
            /\ ~e.raised
            /\ WellFormed(e.res)
            /\ e.outcome.kind = "exit" =>
                 /\ e.res.returncode = e.outcome.rc
                 /\ e.res.stdout = e.outcome.out
                 /\ e.res.stderr = e.outcome.err
            /\ e.outcome.kind = "timeout" =>
                 /\ e.res.returncode = -1
                 /\ e.res.stdout = ""
                 /\ e.res.stderr = "Command timed out"
            /\ e.outcome.kind = "oserror" =>
                 /\ e.res.returncode = -1
                 /\ e.res.stdout = ""
                 /\ e.res.stderr = e.outcome.err

\* A process timed out, and the caller went on to the next command.
C1_Witness ==
    \E i, j \in DOMAIN log :
        /\ i < j
        /\ IsCmd(log[i]) /\ log[i].outcome.kind = "timeout"
        /\ IsCmd(log[j])

----------------------------------------------------------------------------
(* C2 *)

StartCalls == SelectSeq(log, LAMBDA e : IsCmd(e) /\ e.what = StartText)

StartFailed == \E i \in DOMAIN StartCalls : StartCalls[i].rc # 0

\* C2: if the cluster start command returns a non-zero exit code (the -1 of a
\* timeout or launch failure included) the run aborts: main has returned 1,
\* an error line carrying the start command's stderr was logged, and nothing
\* follows the start command: the commands issued are stop, delete, start and
\* no other, there was no sleep, and no file was written (the output
\* directory is as the run found it).
C2_StartFailureAborts ==
    StartFailed =>
        /\ pc = "done"
        /\ exitCode = 1
        /\ CmdTexts = <<"minikube stop", "minikube delete", StartText>>
        /\ \A i \in DOMAIN log : log[i].type \notin {"write", "sleep"}
        /\ DOMAIN files = DOMAIN prev
        /\ \E i \in DOMAIN log :
             /\ log[i].type = "error"
             /\ log[i].what = "Collection failed: Failed to start minikube: "
                              \o StartCalls[1].res.stderr
        /\ log[Len(log)].type = "exit" /\ log[Len(log)].rc = 1

\* The start command timed out: run_command returned -1.
C2_Witness ==
    /\ StartFailed
    /\ StartCalls[1].outcome.kind = "timeout"
    /\ StartCalls[1].rc = -1
    /\ pc = "done"

----------------------------------------------------------------------------
(* C3 *)

DeclaredNames ==
    <<"cluster-info",
      "get_nodes_-o_wide",
      "get_pods_--all-namespaces_--field-selector=status.phase!=Running",
      "top_nodes",
      "top_pods_--all-namespaces",
      "get_componentstatuses",
      "get_events_--all-namespaces_--sort-by='.lastTimestamp'",
      "get_pods_--all-namespaces",
      "get_services_--all-namespaces",
      "get_deployments_--all-namespaces">>

JsonName(sc) == args.cluster_id \o "-" \o sc \o "-comprehensive.json"

FlatName(sc, i) ==
    args.cluster_id \o "-" \o sc \o "-kubectl_" \o DeclaredNames[i] \o ".txt"

\* The file was opened for writing in this run, and the write completed.
Written(fname) ==
    \E i \in DOMAIN log :
        log[i].type = "write" /\ log[i].what = fname /\ log[i].rc = 0

\* C3: within one scenario's assessment run the probes executed so far are
\* the declared ones, each once, in declaration order; whatever a probe's
\* outcome (non-zero exit, timeout, launch failure) the next one runs, so the
\* run stops short of the tenth probe only when persisting the last executed
\* probe's flat file failed; a probe that timed out is recorded with
\* returncode -1 and stderr "Command timed out"; and the aggregated JSON
\* written at the end has exactly one entry per declared probe, all ten names
\* and no others, each holding the record its probe returned.
C3_EveryProbeRunsOnce ==
    \A sc \in Scenarios :
        LET calls == ProbeCalls(sc) IN
        /\ IsPrefix([i \in 1..Len(calls) |-> calls[i].what], ProbeTexts)
        /\ \A i \in 1..Len(calls) :
             calls[i].outcome.kind = "timeout" =>
                /\ calls[i].res.returncode = -1
                /\ calls[i].res.stderr = "Command timed out"
        /\ (Len(calls) > 0 /\ Len(calls) < 10) =>
                ~Written(FlatName(sc, Len(calls)))
        /\ Written(JsonName(sc)) =>
                /\ Len(calls) = 10
                /\ files[JsonName(sc)].kind = "json"
                /\ LET entries == files[JsonName(sc)].doc.assessments IN
                   /\ DOMAIN entries = {DeclaredNames[i] : i \in 1..10}
                   /\ Cardinality(DOMAIN entries) = 10
                   /\ \A i \in 1..10 :
                        entries[DeclaredNames[i]].result = calls[i].res

\* top_nodes timed out in the sick scenario, the six probes after it ran, and
\* the aggregated JSON was written.
C3_Witness ==
    /\ Len(ProbeCalls("sick")) = 10
    /\ ProbeCalls("sick")[4].what = "kubectl top nodes"
    /\ ProbeCalls("sick")[4].outcome.kind = "timeout"
    /\ Written(JsonName("sick"))

----------------------------------------------------------------------------
(* C4 *)

RolloutText ==
    "kubectl rollout status deployment --all-namespaces --timeout=60s"

CleanupText == "kubectl delete all --all"

DeploymentPath(sc) ==
    IF sc = "sick" THEN args.sick_deployment ELSE args.healthy_deployment

ServicePath(sc) ==
    IF sc = "sick" THEN args.sick_service ELSE args.healthy_service

ApplyText(path) == "kubectl apply -f " \o path

\* The commands of one scenario when nothing raises, whatever they return.
ScenarioTexts(sc) ==
    (IF DeploymentPath(sc) \in manifests
     THEN <<ApplyText(DeploymentPath(sc))>> ELSE <<>>)
    \o (IF ServicePath(sc) \in manifests
        THEN <<ApplyText(ServicePath(sc))>> ELSE <<>>)
    \o <<RolloutText>> \o ProbeTexts \o <<CleanupText>>

\* The commands of a whole run when nothing is fatal.
ExpectedTexts ==
    SetupTexts
    \o (IF args.skip_sick THEN <<>> ELSE ScenarioTexts("sick"))
    \o (IF args.skip_healthy THEN <<>> ELSE ScenarioTexts("healthy"))

ReadyFailed ==
    \E i \in DOMAIN log :
        /\ IsCmd(log[i]) /\ log[i].step = "setup"
        /\ log[i].what = ReadyText /\ log[i].rc # 0

\* An exception was raised inside the scenario's collection sequence.
ScenarioException(sc) ==
    \E i \in DOMAIN log : log[i].type = "raise" /\ log[i].scen = sc

Fatal ==
    StartFailed \/ ReadyFailed \/ \E sc \in Scenarios : ScenarioException(sc)

\* The exit code is 1 exactly for the three fatal conditions, 0 otherwise.
ExitCodeRule ==
    pc = "done" =>
        /\ exitCode \in {0, 1}
        /\ exitCode = 1 <=> Fatal

\* Failures of best-effort steps and probes do not change which steps run:
\* the commands issued are always the start of the full sequence, and a run
\* without a fatal condition issues all of it.
StepsContinue ==
    /\ IsPrefix(CmdTexts, ExpectedTexts)
    /\ (pc = "done" /\ ~Fatal) => CmdTexts = ExpectedTexts

\* A best-effort step (minikube stop, minikube delete, add-on enable,
\* manifest apply, rollout-status, cleanup delete) or a diagnostic probe.
BestEffort(e) ==
    /\ IsCmd(e)
    /\ e.what # StartText
    /\ ~(e.step = "setup" /\ e.what = ReadyText)

IsApply(e) == e.step = "deploy" /\ e.what # RolloutText

\* The failure of the command at position i of the history was logged: an
\* error line follows it at once.
FailureLogged(i) == i < Len(log) /\ log[i + 1].type = "error"

----------------------------------------------------------------------------
(* C5 *)

ScenarioFiles(sc) == {JsonName(sc)} \cup {FlatName(sc, i) : i \in 1..10}

\* The files this run opened for writing.
Touched == {log[i].what : i \in {j \in DOMAIN log : log[j].type = "write"}}

\* The files this run added to the output directory.
Created == DOMAIN files \ DOMAIN prev

Other(sc) == IF sc = "sick" THEN "healthy" ELSE "sick"

Skipped(sc) == IF sc = "sick" THEN args.skip_sick ELSE args.skip_healthy

\* Nothing of the scenario happened in this run: no step, no log line of its
\* own, no file of its own created or modified.
NoTrace(sc) ==
    /\ \A i \in DOMAIN log :
         /\ log[i].scen # sc
         /\ log[i].what # "=== COLLECTING " \o Upper(sc) \o " SCENARIO DATA ==="
    /\ Touched \cap ScenarioFiles(sc) = {}
    /\ Created \cap ScenarioFiles(sc) = {}

ScenarioCmdTexts(sc) ==
    LET evs == SelectSeq(log, LAMBDA e : IsCmd(e) /\ e.scen = sc)
    IN  [i \in 1..Len(evs) |-> evs[i].what]

\* C5: a scenario disabled by its skip flag leaves no trace: none of its
\* deploy, probe or cleanup steps is issued and none of its files is written.
\* With only one skip flag set and the run completing, the files written are
\* exactly the other scenario's aggregated JSON and its ten flat files; and
\* the enabled scenario issues the same commands as it does without the flag.
C5_SkippedScenarioLeavesNoTrace ==
    \A sc \in Scenarios :
        /\ Skipped(sc) => NoTrace(sc)
        /\ (Skipped(sc) /\ ~Skipped(Other(sc))) =>
             /\ Touched \subseteq ScenarioFiles(Other(sc))
             /\ Created \subseteq ScenarioFiles(Other(sc))
             /\ IsPrefix(ScenarioCmdTexts(Other(sc)), ScenarioTexts(Other(sc)))
             /\ (pc = "done" /\ exitCode = 0) =>
                  /\ Touched = ScenarioFiles(Other(sc))
                  /\ Created = ScenarioFiles(Other(sc))
                  /\ Cardinality(Touched) = 11
                  /\ \A f \in Touched : Written(f)
                  /\ ScenarioCmdTexts(Other(sc)) = ScenarioTexts(Other(sc))

\* cluster_id test1, only --skip-healthy: the run is over and wrote the
\* eleven sick files.
C5_Witness ==
    /\ args.cluster_id = "test1"
    /\ args.skip_healthy /\ ~args.skip_sick
    /\ pc = "done" /\ exitCode = 0
    /\ "test1-sick-comprehensive.json" \in Touched
    /\ "test1-sick-kubectl_top_nodes.txt" \in Touched
    /\ Cardinality(Touched) = 11

----------------------------------------------------------------------------
(* C6 *)

Count(seq, text) == Len(SelectSeq(seq, LAMBDA e : IsCmd(e) /\ e.what = text))

DeployEvents(sc) == SelectSeq(log, LAMBDA e : e.scen = sc /\ e.step = "deploy")

\* deploy_manifests has run for the scenario.
Deployed(sc) == Len(DeployEvents(sc)) > 0

\* The scenario's assessment run has happened and no exception ended it.
Assessed(sc) ==
    /\ ~ScenarioException(sc)
    /\ \E i \in DOMAIN log : log[i].scen = sc /\ log[i].step = "assess"

\* Between the line announcing the deployment and the next step the deployer
\* logged something: the only place where a skipped deployment manifest
\* could be reported.
SkipLogged(sc) ==
    LET evs == DeployEvents(sc) IN
    /\ Len(evs) >= 2
    /\ IsLogLine(evs[2])
    /\ evs[2].what \notin
         {"Running: " \o ApplyText(ServicePath(sc)),
          "Waiting for deployments to settle..."}

\* What C6 says apart from the logging of the skip.
SkipsMissingDeployment(sc) ==
    LET evs == DeployEvents(sc) IN
    /\ Count(log, ApplyText(DeploymentPath(sc))) = 0
    /\ ServicePath(sc) \in manifests =>
          Count(evs, ApplyText(ServicePath(sc))) = 1
    /\ \E i, j \in DOMAIN evs :
          /\ i < j
          /\ evs[i].type = "sleep" /\ evs[i].what = "45"
          /\ IsCmd(evs[j]) /\ evs[j].what = RolloutText
    /\ \A i \in DOMAIN evs : evs[i].type # "raise"
    /\ (pc = "assess" /\ scen = sc)
          \/ \E i \in DOMAIN log : log[i].scen = sc /\ log[i].step = "assess"
    /\ Assessed(sc) =>
          /\ ProbeCalls(sc) # <<>>
          /\ [i \in 1..Len(ProbeCalls(sc)) |-> ProbeCalls(sc)[i].what]
                = ProbeTexts
          /\ \A f \in ScenarioFiles(sc) : Written(f) /\ f \in DOMAIN files

MissingDeployment(sc) ==
    Deployed(sc) /\ DeploymentPath(sc) \notin manifests

----------------------------------------------------------------------------
(* C7 *)

\* C7: if an exception is raised inside the sick scenario's collection
\* sequence, the scenario is aborted (nothing of it follows the exception, it
\* is never cleaned up), the exception is logged by the scenario and by main,
\* main returns 1, and the healthy scenario is not attempted: none of its
\* commands is issued and none of its files is written.
C7_SickExceptionAbortsRun ==
    ScenarioException("sick") =>
        /\ pc = "done"
        /\ exitCode = 1
        /\ NoTrace("healthy")
        /\ Count(log, CleanupText) = 0
        /\ \E i \in DOMAIN log :
             /\ log[i].type = "raise"
             /\ i + 3 = Len(log)
             /\ log[i + 1].type = "error"
             /\ log[i + 1].what = "Error in sick scenario: " \o WriteError
             /\ log[i + 2].type = "error"
             /\ log[i + 2].what = "Collection failed: " \o WriteError
             /\ log[i + 3].type = "exit" /\ log[i + 3].rc = 1

\* A file write raised in the sick scenario of a run that had the healthy
\* scenario enabled.
C7_Witness ==
    /\ ScenarioException("sick")
    /\ ~args.skip_healthy
    /\ pc = "done"

----------------------------------------------------------------------------
(* C8 *)

\* The place of an event in the fixed order of a run, 0 for the lines main
\* and collect_scenario_data log themselves.
Rank(e) ==
    IF e.step = "setup" THEN 1
    ELSE IF e.step \notin {"deploy", "assess", "cleanup"} THEN 0
    ELSE (IF e.scen = "sick" THEN 1 ELSE 4)
         + (CASE e.step = "deploy" -> 1
              [] e.step = "assess" -> 2
              [] OTHER -> 3)

Ranked == SelectSeq(log, LAMBDA e : Rank(e) > 0)

\* The position of the scenario's first event at or after i, 0 if none.
RECURSIVE FirstFrom(_, _)
FirstFrom(sc, i) ==
    IF i > Len(log) THEN 0
    ELSE IF log[i].scen = sc THEN i
    ELSE FirstFrom(sc, i + 1)

FirstOf(sc) == FirstFrom(sc, 1)

Happened(sc) == FirstOf(sc) > 0

\* C8: the steps of a run happen in the fixed order: setup, then sick
\* deploy, assess, cleanup, then healthy deploy, assess, cleanup; cluster
\* setup has completed (its five commands issued, readiness confirmed) before
\* any scenario step; the sick scenario's cleanup (the delete of all
\* default-namespace resources, then the 10-second wait) is over before the
\* first step of the healthy scenario; and stop, delete and start are each
\* issued exactly once, in setup, never again between the scenarios.
C8_FixedOrder ==
    /\ LET r == Ranked IN
       \A i \in 1..(Len(r) - 1) : Rank(r[i]) <= Rank(r[i + 1])
    /\ \A sc \in Scenarios :
         Happened(sc) =>
            /\ IsPrefix(SetupTexts, CmdTexts)
            /\ ~ReadyFailed /\ ~StartFailed
            /\ LET first == FirstOf(sc) IN
               \A i \in DOMAIN log : log[i].step = "setup" => i < first
    /\ (Happened("sick") /\ Happened("healthy")) =>
         LET before == SubSeq(log, 1, FirstOf("healthy") - 1)
             cleanup == SelectSeq(before,
                                  LAMBDA e : /\ e.scen = "sick"
                                             /\ e.step = "cleanup"
                                             /\ e.type \in {"cmd", "sleep"})
         IN  /\ Len(cleanup) = 2
             /\ IsCmd(cleanup[1]) /\ cleanup[1].what = CleanupText
             /\ cleanup[2].type = "sleep" /\ cleanup[2].what = "10"
    /\ log # <<>> =>
         /\ Count(log, "minikube stop") = 1
         /\ Count(log, "minikube delete") = 1
         /\ Count(log, StartText) = 1
         /\ Count(log, "minikube addons enable metrics-server") <= 1

\* Both scenarios ran in one run, which is over.
C8_Witness ==
    /\ pc = "done" /\ exitCode = 0
    /\ Happened("sick") /\ Happened("healthy")
    /\ Count(log, CleanupText) = 2

----------------------------------------------------------------------------
(* C9 *)

AllOutputFiles == ScenarioFiles("sick") \cup ScenarioFiles("healthy")

\* An earlier run left the scenario's eleven files, all of them complete.
LeftBy(dir, sc) ==
    \A f \in ScenarioFiles(sc) : f \in DOMAIN dir /\ dir[f] # "empty"

\* C9: when the collection runs again with the same cluster_id and scenario
\* over the files of an earlier complete run, it overwrites: after the later
\* run each flat file holds exactly what this run's probe returned and
\* nothing of the earlier content, the aggregated JSON holds exactly this
\* run's records, and no file is added to the scenario's eleven.
C9_RerunOverwrites ==
    \A sc \in Scenarios :
        (run > 1 /\ LeftBy(prev, sc) /\ Written(JsonName(sc))) =>
            /\ \A i \in 1..10 :
                 LET f == FlatName(sc, i) IN
                 /\ files[f] =
                      [kind |-> "text",
                       text |-> flat_file_text(args.cluster_id, sc,
                                               ProbeCalls(sc)[i].res)]
                 /\ files[JsonName(sc)].doc.assessments[DeclaredNames[i]].result
                      = ProbeCalls(sc)[i].res
            /\ files[JsonName(sc)].kind = "json"
            /\ files[JsonName(sc)].doc.timestamp = ProbeCalls(sc)[1].res.timestamp - 1
            /\ DOMAIN files \subseteq AllOutputFiles
            /\ (DOMAIN files \ DOMAIN prev) \cap ScenarioFiles(sc) = {}

\* The second run completed the sick scenario over the files of the first.
C9_Witness ==
    /\ run = 2
    /\ LeftBy(prev, "sick")
    /\ Written(JsonName("sick"))
    /\ pc = "done"

----------------------------------------------------------------------------
(* C10 *)

\* The commands and file writes of a scenario's assessment run, in order.
AssessTrace(sc) ==
    SelectSeq(log, LAMBDA e : /\ e.scen = sc /\ e.step = "assess"
                              /\ e.type \in {"cmd", "write"})

\* C10: in a scenario's assessment run the i-th probe's flat file is written
\* right after the i-th probe returns and before the next probe runs, so the
\* flat files written so far are those of a prefix of the declared list; the
\* aggregated JSON is written only after all ten probes and all ten flat
\* files; and whenever the JSON was written, each of the ten flat files was
\* written in the same run and its header carries the command, return code
\* and timestamp of the corresponding JSON entry.
C10_FlatFilesBeforeJson ==
    \A sc \in Scenarios :
        LET tr == AssessTrace(sc) IN
        /\ Len(tr) <= 21
        /\ \A n \in DOMAIN tr :
             /\ (n <= 20 /\ n % 2 = 1) =>
                    IsCmd(tr[n]) /\ tr[n].what = ProbeTexts[(n + 1) \div 2]
             /\ (n <= 20 /\ n % 2 = 0) =>
                    tr[n].type = "write" /\ tr[n].what = FlatName(sc, n \div 2)
             /\ n = 21 => tr[n].type = "write" /\ tr[n].what = JsonName(sc)
             /\ (n < Len(tr) /\ tr[n].type = "write") => tr[n].rc = 0
        /\ Written(JsonName(sc)) =>
             \A i \in 1..10 :
                LET flat == files[FlatName(sc, i)]
                    entry == files[JsonName(sc)].doc.assessments[DeclaredNames[i]]
                IN
                /\ Written(FlatName(sc, i))
                /\ flat.kind = "text"
                /\ flat.text[1] = "# Command: " \o entry.result.command \o "\n"
                /\ flat.text[2] = "# Timestamp: "
                                  \o IntToStr(entry.result.timestamp) \o "\n"
                /\ flat.text[3] = "# Return code: "
                                  \o IntToStr(entry.result.returncode) \o "\n"

\* The sick scenario's aggregated JSON was written after a probe that could
\* not be launched: its -1 is in the flat file and in the JSON entry.
C10_Witness ==
    /\ Written(JsonName("sick"))
    /\ \E i \in 1..10 :
         /\ ProbeCalls("sick")[i].outcome.kind = "oserror"
         /\ files[FlatName("sick", i)].text[3] = "# Return code: -1\n"

====
